---------------------------- MODULE Spec2Model ----------------------------
(***************************************************************************)
(* Resource sharing service: the relational store (users, groups,         *)
(* user_groups, resources, resource_shares), the services that write it   *)
(* (UserService, GroupService, ResourceService, SharingService) and the    *)
(* access-resolution queries of SharingService.                            *)
(***************************************************************************)
EXTENDS Integers, Sequences, FiniteSets, TLC

(***************************************************************************)
(* Bounds of the model.                                                    *)
(***************************************************************************)
MaxUsers == 2
MaxGroups == 1
MaxResources == 2
MaxShares == 2
MaxMemberships == 2
MaxLimit == 2
MaxOffset == 1
MaxMinUsers == 1
MaxCalls == 2
MaxMinResources == 1
MaxClock == 2

\* const { limit = 50, ... } = params
DefaultLimit == 50

(***************************************************************************)
(* Identifiers.  Ids are opaque uuids; the three tables draw them from     *)
(* disjoint ranges, handed out in creation order and never reused.  Ghost  *)
(* is a well-formed uuid that no table ever holds.                         *)
(***************************************************************************)
Ghost == 0
GroupBase == 100
ResourceBase == 200


\* The name a row is given when it is created.  Names are caller input; the
\* model gives the k-th row created the k-th name counted from the top, so
\* that the order by name is not the order of creation.
userName(id) == MaxUsers + 1 - id
\* the unique email of a user row: emails are in the order of creation
userEmail(id) == id
resourceName(id) == ResourceBase + MaxResources + 1 - id
ShareType == {"user", "group"}

VARIABLES
  users,           \* table users: rows [id, name, email, createdAt]
  groups,          \* table groups: the ids of its rows
  userGroups,      \* table user_groups: rows [userId, groupId, joinedAt]
  resources,       \* table resources: rows [id, name, isGlobal, createdAt]
  resourceShares,  \* table resource_shares: rows [resourceId, shareType, targetId, createdAt]
  resourceSeq,     \* number of resource rows ever inserted
  shareSeq,        \* number of share rows ever inserted
  resp,            \* what the last call returned or threw
  calls,           \* the createShare calls that run step by step: where each one is
  faulty,          \* whether the storage may fail the statements of a query
  clock            \* the time now() reads when a membership row is inserted

tables == <<users, groups, userGroups, resources, resourceShares>>
vars == <<users, groups, userGroups, resources, resourceShares, resourceSeq, shareSeq, resp, calls, faulty, clock>>

(***************************************************************************)
(* Errors (utils/errors.ts).                                               *)
(***************************************************************************)
NoError == [code |-> "NONE"]
createNotFoundError_as_database_error(resource, id) ==
  [code |-> "DATABASE_ERROR", statusCode |-> 500]

createNotFoundError(resource, id) ==
  [code |-> "RESOURCE_NOT_FOUND", statusCode |-> 404, resource |-> resource, id |-> id]
createDatabaseError == [code |-> "DATABASE_ERROR", statusCode |-> 500]

\* resp: the operation last called, its arguments when it is a query, and
\* either the value it returned or the error it threw
Returned(op, args, result) == [op |-> op, args |-> args, error |-> NoError, result |-> result]
Threw(op, args, error) == [op |-> op, args |-> args, error |-> error]

withStorage_swallowing_failure(op, args, responses) ==
  IF faulty THEN responses \cup {Returned(op, args, "none")} ELSE responses

\* a query's try/catch around its storage statements: when the storage fails
\* one of them the statement throws, and the catch rethrows a database error;
\* otherwise the query gives one of its responses
withStorage(op, args, responses) ==
  IF faulty THEN responses \cup {Threw(op, args, createDatabaseError)} ELSE responses

(***************************************************************************)
(* Lookups of the storage client.                                          *)
(***************************************************************************)
userIds == {u.id : u \in users}
resourceIds == {r.id : r \in resources}
userExists(id) == id \in userIds
groupExists(id) == id \in groups
resourceExists(id) == id \in resourceIds
findResource(id) == CHOOSE r \in resources : r.id = id
findUser(id) == CHOOSE u \in users : u.id = id

\* the rows of resource_shares with the given key (the @@unique key of the table)
sharesWithKey(resourceId, shareType, targetId) ==
  {s \in resourceShares : s.resourceId = resourceId /\ s.shareType = shareType
                          /\ s.targetId = targetId}

UniqueViolation_never(resourceId, shareType, targetId) == FALSE

\* @@unique([resourceId, shareType, targetId]): the insert is refused when the key is taken
UniqueViolation(resourceId, shareType, targetId) ==
  sharesWithKey(resourceId, shareType, targetId) # {}

\* resource_id REFERENCES resources(id): the insert is refused when the resource is missing
ForeignKeyViolation(resourceId) == ~ resourceExists(resourceId)

\* db.resourceShare.create: the row the insert adds, stamped with the insertion time
newShare(resourceId, shareType, targetId) ==
  [resourceId |-> resourceId, shareType |-> shareType, targetId |-> targetId,
   createdAt |-> shareSeq + 1]

(***************************************************************************)
(* Ids a caller may pass: any id of the right shape, present or not.       *)
(***************************************************************************)
AnyUserId == userIds \cup {Ghost}
AnyGroupId == groups \cup {Ghost}
AnyResourceId == (ResourceBase + 1)..(ResourceBase + resourceSeq) \cup {Ghost}
AnyTargetId(shareType) == IF shareType = "user" THEN AnyUserId ELSE AnyGroupId

(***************************************************************************)
(* UserService, GroupService                                               *)
(***************************************************************************)
createUser ==
  /\ Cardinality(users) < MaxUsers
  /\ users' = users \cup {[id |-> Cardinality(users) + 1,
                           name |-> userName(Cardinality(users) + 1),
                           email |-> userEmail(Cardinality(users) + 1),
                           createdAt |-> Cardinality(users) + 1]}
  /\ resp' = Returned("createUser", <<>>, "row")
  /\ UNCHANGED <<groups, userGroups, resources, resourceShares, resourceSeq, shareSeq, calls, faulty, clock>>

createGroup ==
  /\ Cardinality(groups) < MaxGroups
  /\ groups' = groups \cup {GroupBase + Cardinality(groups) + 1}
  /\ resp' = Returned("createGroup", <<>>, "row")
  /\ UNCHANGED <<users, userGroups, resources, resourceShares, resourceSeq, shareSeq, calls, faulty, clock>>

\* @@id([userId, groupId]): a row with this key is stored
isMember(userId, groupId) ==
  \E ug \in userGroups : ug.userId = userId /\ ug.groupId = groupId

addUserToGroup_inserting_again(userId, groupId) ==
  /\ userExists(userId) /\ groupExists(groupId)
  /\ userGroups' = userGroups \cup
       {[userId |-> userId, groupId |-> groupId, joinedAt |-> clock]}
  /\ resp' = Returned("addUserToGroup", <<>>, "void")
  /\ UNCHANGED <<users, groups, resources, resourceShares, resourceSeq, shareSeq, calls, faulty, clock>>

addUserToGroup(userId, groupId) ==
  /\ IF ~ userExists(userId)
       THEN /\ resp' = Threw("addUserToGroup", <<>>, createNotFoundError("User", userId))
            /\ UNCHANGED userGroups
     ELSE IF ~ groupExists(groupId)
       THEN /\ resp' = Threw("addUserToGroup", <<>>, createNotFoundError("Group", groupId))
            /\ UNCHANGED userGroups
     ELSE IF isMember(userId, groupId)
       THEN \* unique constraint error, swallowed by the catch block
            /\ resp' = Returned("addUserToGroup", <<>>, "void")
            /\ UNCHANGED userGroups
     ELSE /\ Cardinality(userGroups) < MaxMemberships
          /\ userGroups' = userGroups \cup
               {[userId |-> userId, groupId |-> groupId, joinedAt |-> clock]}
          /\ resp' = Returned("addUserToGroup", <<>>, "void")
  /\ UNCHANGED <<users, groups, resources, resourceShares, resourceSeq, shareSeq, calls, faulty, clock>>

removeUserFromGroup_keeping_rows(userId, groupId) ==
  /\ resp' = Returned("removeUserFromGroup", <<>>, "void")
  /\ UNCHANGED <<users, groups, userGroups, resources, resourceShares, resourceSeq, shareSeq, calls, faulty, clock>>

removeUserFromGroup(userId, groupId) ==
  /\ userGroups' = {ug \in userGroups : ~ (ug.userId = userId /\ ug.groupId = groupId)}
  /\ resp' = Returned("removeUserFromGroup", <<>>, "void")
  /\ UNCHANGED <<users, groups, resources, resourceShares, resourceSeq, shareSeq, calls, faulty, clock>>

(***************************************************************************)
(* ResourceService                                                         *)
(***************************************************************************)
createResource(isGlobal) ==
  /\ resourceSeq < MaxResources
  /\ resources' = resources \cup
       {[id |-> ResourceBase + resourceSeq + 1,
         name |-> resourceName(ResourceBase + resourceSeq + 1), isGlobal |-> isGlobal,
         createdAt |-> resourceSeq + 1]}
  /\ resourceSeq' = resourceSeq + 1
  /\ resp' = Returned("createResource", <<>>, "row")
  /\ UNCHANGED <<users, groups, userGroups, resourceShares, shareSeq, calls, faulty, clock>>

\* updates: a record holding the fields to overwrite (name and/or isGlobal)
applyUpdates(r, updates) ==
  [id |-> r.id,
   name |-> IF "name" \in DOMAIN updates THEN updates.name ELSE r.name,
   isGlobal |-> IF "isGlobal" \in DOMAIN updates THEN updates.isGlobal ELSE r.isGlobal,
   createdAt |-> r.createdAt]

Updates == {[isGlobal |-> g] : g \in BOOLEAN}

updateResource_dropping_shares(id, updates) ==
  /\ resourceExists(id)
  /\ resources' = (resources \ {findResource(id)})
                     \cup {applyUpdates(findResource(id), updates)}
  /\ resourceShares' = IF updates.isGlobal
                         THEN {s \in resourceShares : s.resourceId # id}
                         ELSE resourceShares
  /\ resp' = Returned("updateResource", <<>>, "row")
  /\ UNCHANGED <<users, groups, userGroups, resourceSeq, shareSeq, calls, faulty, clock>>

updateResource(id, updates) ==
  /\ IF ~ resourceExists(id)
       THEN /\ resp' = Threw("updateResource", <<>>, createNotFoundError("Resource", id))
            /\ UNCHANGED resources
       ELSE /\ resources' = (resources \ {findResource(id)})
                              \cup {applyUpdates(findResource(id), updates)}
            /\ resp' = Returned("updateResource", <<>>, "row")
  /\ UNCHANGED <<users, groups, userGroups, resourceShares, resourceSeq, shareSeq, calls, faulty, clock>>

deleteResource_leaving_shares(id) ==
  /\ resourceExists(id)
  /\ resources' = resources \ {findResource(id)}
  /\ resp' = Returned("deleteResource", <<>>, "void")
  /\ UNCHANGED <<users, groups, userGroups, resourceShares, resourceSeq, shareSeq, calls, faulty, clock>>

deleteResource(id) ==
  /\ IF ~ resourceExists(id)
       THEN /\ resp' = Threw("deleteResource", <<>>, createNotFoundError("Resource", id))
            /\ UNCHANGED <<resources, resourceShares>>
       ELSE /\ resources' = resources \ {findResource(id)}
            \* onDelete: Cascade on ResourceShare.resource
            /\ resourceShares' = {s \in resourceShares : s.resourceId # id}
            /\ resp' = Returned("deleteResource", <<>>, "void")
  /\ UNCHANGED <<users, groups, userGroups, resourceSeq, shareSeq, calls, faulty, clock>>

(***************************************************************************)
(* SharingService: writes                                                  *)
(***************************************************************************)
\* sharing.service.ts: insert, any failure of the insert is rethrown as a database error
createShare(resourceId, shareType, targetId) ==
  /\ IF ForeignKeyViolation(resourceId) \/ UniqueViolation(resourceId, shareType, targetId)
       THEN /\ resp' = Threw("createShare", <<>>, createDatabaseError)
            /\ UNCHANGED <<resourceShares, shareSeq>>
       ELSE /\ shareSeq < MaxShares
            /\ resourceShares' = resourceShares \cup {newShare(resourceId, shareType, targetId)}
            /\ shareSeq' = shareSeq + 1
            /\ resp' = Returned("createShare", <<>>, "void")
  /\ UNCHANGED <<users, groups, userGroups, resources, resourceSeq, calls, faulty, clock>>

\* sharing.service.simple.ts: resource and target are looked up before the insert
createShare_simple(resourceId, shareType, targetId) ==
  /\ IF ~ resourceExists(resourceId)
       THEN /\ resp' = Threw("createShare_simple", <<>>,
                             createNotFoundError("Resource", resourceId))
            /\ UNCHANGED <<resourceShares, shareSeq>>
     ELSE IF shareType = "user" /\ ~ userExists(targetId)
       THEN /\ resp' = Threw("createShare_simple", <<>>,
                             createNotFoundError("User", targetId))
            /\ UNCHANGED <<resourceShares, shareSeq>>
     ELSE IF shareType = "group" /\ ~ groupExists(targetId)
       THEN /\ resp' = Threw("createShare_simple", <<>>,
                             createNotFoundError("Group", targetId))
            /\ UNCHANGED <<resourceShares, shareSeq>>
     ELSE IF UniqueViolation(resourceId, shareType, targetId)
       THEN /\ resp' = Threw("createShare_simple", <<>>, createDatabaseError)
            /\ UNCHANGED <<resourceShares, shareSeq>>
     ELSE /\ shareSeq < MaxShares
          /\ resourceShares' = resourceShares \cup {newShare(resourceId, shareType, targetId)}
          /\ shareSeq' = shareSeq + 1
          /\ resp' = Returned("createShare_simple", <<>>, "void")
  /\ UNCHANGED <<users, groups, userGroups, resources, resourceSeq, calls, faulty, clock>>

removeShare_of_every_target(resourceId, shareType, targetId) ==
  /\ resourceShares' = {rs \in resourceShares :
                          ~ (rs.resourceId = resourceId /\ rs.shareType = shareType)}
  /\ resp' = Returned("removeShare", <<>>, "void")
  /\ UNCHANGED <<users, groups, userGroups, resources, resourceSeq, shareSeq, calls, faulty, clock>>

removeShare(resourceId, shareType, targetId) ==
  /\ resourceShares' = resourceShares \ sharesWithKey(resourceId, shareType, targetId)
  /\ resp' = Returned("removeShare", <<>>, "void")
  /\ UNCHANGED <<users, groups, userGroups, resources, resourceSeq, shareSeq, calls, faulty, clock>>

(***************************************************************************)
(* createShare step by step: every await of the method is a step, so that  *)
(* the steps of several calls interleave.  A call keeps its parameters,    *)
(* the await it is at, and once it is done what it threw and whether its   *)
(* insert stored a row.                                                    *)
(***************************************************************************)
Variant == {"main", "simple"}

idle == [pc |-> "idle", variant |-> "main", resourceId |-> Ghost, shareType |-> "user",
         targetId |-> Ghost, error |-> NoError, cause |-> "none",
         inserted |-> FALSE, overlapped |-> FALSE]

inFlight(call) == call.pc \notin {"idle", "done"}

sameKey(a, b) ==
  a.resourceId = b.resourceId /\ a.shareType = b.shareType /\ a.targetId = b.targetId

\* the call has thrown: error is what the caller gets, cause is what failed
thrown(call, error, cause) == [call EXCEPT !.pc = "done", !.error = error, !.cause = cause]

\* createShare(params) is called: sharing.service.ts goes to the insert,
\* sharing.service.simple.ts to the lookup of the resource
beginCreateShare(i, variant, resourceId, shareType, targetId) ==
  /\ calls[i].pc = "idle"
  /\ calls' = [calls EXCEPT ![i] =
                 [idle EXCEPT !.pc = IF variant = "simple" THEN "findResource" ELSE "create",
                              !.variant = variant, !.resourceId = resourceId,
                              !.shareType = shareType, !.targetId = targetId]]
  /\ UNCHANGED <<users, groups, userGroups, resources, resourceShares, resourceSeq, shareSeq, resp, faulty, clock>>

\* await db.resource.findUnique({ where: { id: params.resourceId } })
findResourceStep(i) ==
  /\ calls[i].pc = "findResource"
  /\ calls' = [calls EXCEPT ![i] =
                 IF ~ resourceExists(calls[i].resourceId)
                   THEN thrown(calls[i], createNotFoundError("Resource", calls[i].resourceId),
                               "notFound")
                   ELSE [calls[i] EXCEPT !.pc = "findTarget"]]
  /\ UNCHANGED <<users, groups, userGroups, resources, resourceShares, resourceSeq, shareSeq, resp, faulty, clock>>

\* await db.user.findUnique(...) or await db.group.findUnique(...), by share type
findTargetStep(i) ==
  /\ calls[i].pc = "findTarget"
  /\ calls' = [calls EXCEPT ![i] =
                 IF calls[i].shareType = "user" /\ ~ userExists(calls[i].targetId)
                   THEN thrown(calls[i], createNotFoundError("User", calls[i].targetId),
                               "notFound")
                 ELSE IF calls[i].shareType = "group" /\ ~ groupExists(calls[i].targetId)
                   THEN thrown(calls[i], createNotFoundError("Group", calls[i].targetId),
                               "notFound")
                 ELSE [calls[i] EXCEPT !.pc = "create"]]
  /\ UNCHANGED <<users, groups, userGroups, resources, resourceShares, resourceSeq, shareSeq, resp, faulty, clock>>

\* await db.resourceShare.create(...): one statement of the database; what it
\* throws reaches the caller as a database error
createStep(i) ==
  /\ calls[i].pc = "create"
  /\ IF ForeignKeyViolation(calls[i].resourceId)
       THEN /\ calls' = [calls EXCEPT ![i] = thrown(calls[i], createDatabaseError, "foreignKey")]
            /\ UNCHANGED <<resourceShares, shareSeq>>
     ELSE IF UniqueViolation(calls[i].resourceId, calls[i].shareType, calls[i].targetId)
       THEN /\ calls' = [calls EXCEPT ![i] = thrown(calls[i], createDatabaseError, "unique")]
            /\ UNCHANGED <<resourceShares, shareSeq>>
     ELSE /\ shareSeq < MaxShares
          /\ resourceShares' = resourceShares \cup
               {newShare(calls[i].resourceId, calls[i].shareType, calls[i].targetId)}
          /\ shareSeq' = shareSeq + 1
          /\ calls' = [calls EXCEPT ![i] =
                         [calls[i] EXCEPT !.pc = "done", !.inserted = TRUE,
                            !.overlapped = \E j \in DOMAIN calls :
                               j # i /\ inFlight(calls[j]) /\ sameKey(calls[j], calls[i])]]
  /\ UNCHANGED <<users, groups, userGroups, resources, resourceSeq, resp, faulty, clock>>

(***************************************************************************)
(* Result lists.  A query without ORDER BY returns its rows in any order;  *)
(* a query ordered by a key returns them in any order that agrees with the *)
(* key.                                                                    *)
(***************************************************************************)
anyOrder(S) ==
  {f \in [1..Cardinality(S) -> S] : \A i, j \in 1..Cardinality(S) : i # j => f[i] # f[j]}

\* the value of a row in the column it is ordered by
columnOf(row, column) ==
  IF column = "createdAt" THEN row.createdAt
  ELSE IF column = "email" THEN row.email
  ELSE row.name

orderBy(S, column, order) ==
  {f \in anyOrder(S) : \A i \in 1..(Cardinality(S) - 1) :
      IF order = "desc" THEN columnOf(f[i], column) >= columnOf(f[i + 1], column)
      ELSE columnOf(f[i], column) <= columnOf(f[i + 1], column)}

\* Array.prototype.slice(offset, offset + limit)
slice_ignoring_offset(seq, offset, limit) ==
  [i \in 1..(IF limit < Len(seq) THEN limit ELSE Len(seq)) |-> seq[i]]

slice(seq, offset, limit) ==
  [i \in 1..(IF Len(seq) - offset < 0 THEN 0
             ELSE IF Len(seq) - offset < limit THEN Len(seq) - offset ELSE limit)
     |-> seq[offset + i]]

(***************************************************************************)
(* SharingService.getResourceAccessList                                    *)
(***************************************************************************)
\* CTE direct_users: users joined to the user-type shares of the resource
direct_users(resourceId) ==
  {[id |-> u.id, name |-> u.name, accessType |-> "direct"] :
     u \in {v \in users : \E rs \in resourceShares :
                /\ v.id = rs.targetId
                /\ rs.resourceId = resourceId
                /\ rs.shareType = "user"}}

\* CTE group_users: users joined through user_groups to the group-type shares
group_users(resourceId) ==
  {[id |-> u.id, name |-> u.name, accessType |-> "group"] :
     u \in {v \in users : \E ug \in userGroups, rs \in resourceShares :
                /\ v.id = ug.userId
                /\ ug.groupId = rs.targetId
                /\ rs.resourceId = resourceId
                /\ rs.shareType = "group"}}

\* CTE all_access, then SELECT DISTINCT id, name, email, access_type
all_access(resourceId) == direct_users(resourceId) \cup group_users(resourceId)

\* db.resourceShare.count({ where: { resourceId, shareType } })
countShares(resourceId, shareType) ==
  Cardinality({rs \in resourceShares : rs.resourceId = resourceId /\ rs.shareType = shareType})

\* metadata of the response: the share counts are zero by policy for a global
\* resource and the row counts of resource_shares otherwise
metadata_counting_global(resourceId, list, isGlobal) ==
  [totalUsers |-> Len(list),
   directShares |-> countShares(resourceId, "user"),
   groupShares |-> countShares(resourceId, "group"),
   isGlobal |-> isGlobal]

metadata(resourceId, list, isGlobal) ==
  [totalUsers |-> Len(list),
   directShares |-> IF isGlobal THEN 0 ELSE countShares(resourceId, "user"),
   groupShares |-> IF isGlobal THEN 0 ELSE countShares(resourceId, "group"),
   isGlobal |-> isGlobal]

\* the responses the call may produce in the current state
getResourceAccessList(resourceId) ==
  withStorage("getResourceAccessList", <<resourceId>>,
    IF ~ resourceExists(resourceId)
      THEN {Threw("getResourceAccessList", <<resourceId>>, createNotFoundError("Resource", resourceId))}
    ELSE IF findResource(resourceId).isGlobal
      THEN {Returned("getResourceAccessList", <<resourceId>>,
              [resource |-> findResource(resourceId),
               users |-> list,
               metadata |-> metadata(resourceId, list, TRUE)]) :
            list \in anyOrder({[id |-> u.id, name |-> u.name, accessType |-> "global"] : u \in users})}
    ELSE {Returned("getResourceAccessList", <<resourceId>>,
              [resource |-> findResource(resourceId),
               users |-> list,
               metadata |-> metadata(resourceId, list, FALSE)]) :
            list \in orderBy(all_access(resourceId), "name", "asc")})

(***************************************************************************)
(* SharingService.checkUserAccess                                          *)
(***************************************************************************)
groupIdsOf_of_any_user(userId) == {ug.groupId : ug \in userGroups}

\* db.userGroup.findMany({ where: { userId } }) mapped to the group ids
groupIdsOf(userId) == {ug.groupId : ug \in {m \in userGroups : m.userId = userId}}

directAccess_skipped(userId, resourceId) == {}

\* rows db.resourceShare.findFirst may return for the direct check
directAccess(userId, resourceId) == sharesWithKey(resourceId, "user", userId)

groupAccess_any_group(userId, resourceId) ==
  {rs \in resourceShares : rs.resourceId = resourceId /\ rs.shareType = "group"}

\* rows db.resourceShare.findFirst may return for the group check
groupAccess(userId, resourceId) ==
  {rs \in resourceShares : /\ rs.resourceId = resourceId
                           /\ rs.shareType = "group"
                           /\ rs.targetId \in groupIdsOf(userId)}

\* the responses the call may produce in the current state
checkUserAccess(userId, resourceId) ==
  withStorage("checkUserAccess", <<userId, resourceId>>,
    IF ~ resourceExists(resourceId)
      THEN {Returned("checkUserAccess", <<userId, resourceId>>, [hasAccess |-> FALSE])}
    ELSE IF findResource(resourceId).isGlobal
      THEN {Returned("checkUserAccess", <<userId, resourceId>>,
                     [hasAccess |-> TRUE, accessType |-> "global"])}
    ELSE IF directAccess(userId, resourceId) # {}
      THEN {Returned("checkUserAccess", <<userId, resourceId>>,
                     [hasAccess |-> TRUE, accessType |-> "direct", grantedAt |-> rs.createdAt]) :
            rs \in directAccess(userId, resourceId)}
    ELSE IF groupAccess(userId, resourceId) # {}
      THEN {Returned("checkUserAccess", <<userId, resourceId>>,
                     [hasAccess |-> TRUE, accessType |-> "group", grantedAt |-> rs.createdAt]) :
            rs \in groupAccess(userId, resourceId)}
    ELSE {Returned("checkUserAccess", <<userId, resourceId>>, [hasAccess |-> FALSE])})

(***************************************************************************)
(* SharingService.getUserResources                                         *)
(***************************************************************************)
\* sort and order as passed by the route (name, asc), and the sort the service
\* applies to the page itself
SortParams == {<<"name", "asc">>, <<"access_type", "desc">>}

\* db.resource.findMany({ orderBy }) with the whitelisted sort column, name asc otherwise
findManyResources(sort, order) ==
  IF sort \in {"name", "createdAt"} THEN orderBy(resources, sort, order)
  ELSE orderBy(resources, "name", "asc")

sharesOf_any_resource(resource) == resourceShares

\* resource.resourceShares of the include
sharesOf(resource) == {rs \in resourceShares : rs.resourceId = resource.id}

null == [isNull |-> TRUE]

\* the callback of allResources.map: the entries it may yield for one resource
\* (null when the user has no access); find() takes the first matching share
\* of an array whose order the storage does not fix
accessEntry(resource, userId) ==
  IF resource.isGlobal
    THEN {[id |-> resource.id, name |-> resource.name, isGlobal |-> resource.isGlobal,
           accessType |-> "global", createdAt |-> resource.createdAt]}
  ELSE IF \E share \in sharesOf(resource) : share.shareType = "user" /\ share.targetId = userId
    THEN {[id |-> resource.id, name |-> resource.name, isGlobal |-> resource.isGlobal,
           accessType |-> "direct", createdAt |-> resource.createdAt,
           sharedAt |-> share.createdAt] :
          share \in {sh \in sharesOf(resource) : sh.shareType = "user" /\ sh.targetId = userId}}
  ELSE IF \E share \in sharesOf(resource) :
            share.shareType = "group" /\ share.targetId \in groupIdsOf(userId)
    THEN {[id |-> resource.id, name |-> resource.name, isGlobal |-> resource.isGlobal,
           accessType |-> "group", createdAt |-> resource.createdAt,
           sharedAt |-> share.createdAt] :
          share \in {sh \in sharesOf(resource) :
                        sh.shareType = "group" /\ sh.targetId \in groupIdsOf(userId)}}
  ELSE {null}

notNull(entry) == "isNull" \notin DOMAIN entry

\* allResources.map(...).filter(resource => resource !== null): the lists it may yield
accessibleResources(userId, sort, order) ==
  UNION {{SelectSeq(mapped, notNull) :
            mapped \in {m \in [1..Len(all) -> UNION {accessEntry(r, userId) : r \in resources}] :
                          \A i \in 1..Len(all) : m[i] \in accessEntry(all[i], userId)}} :
         all \in findManyResources(sort, order)}

\* localeCompare on the access type names
accessTypeRank(accessType) ==
  IF accessType = "direct" THEN 1 ELSE IF accessType = "global" THEN 2 ELSE 3

\* Array.prototype.sort by access type: stable, ascending or descending
sortByAccessType(page, order) ==
  CHOOSE sorted \in [1..Len(page) -> {page[i] : i \in 1..Len(page)}] :
    \E perm \in [1..Len(page) -> 1..Len(page)] :
      /\ \A i, j \in 1..Len(page) : i # j => perm[i] # perm[j]
      /\ \A i \in 1..Len(page) : sorted[i] = page[perm[i]]
      /\ \A i, j \in 1..Len(page) : i < j =>
           LET a == accessTypeRank(page[perm[i]].accessType)
               b == accessTypeRank(page[perm[j]].accessType)
           IN  IF a = b THEN perm[i] < perm[j]
               ELSE IF order = "desc" THEN a > b ELSE a < b

\* the responses the call may produce in the current state
getUserResources(userId, limit, offset, sort, order) ==
  withStorage("getUserResources", <<userId, limit, offset, sort, order>>,
    IF ~ userExists(userId)
      THEN {Threw("getUserResources", <<userId, limit, offset, sort, order>>,
                  createNotFoundError("User", userId))}
    ELSE {Returned("getUserResources", <<userId, limit, offset, sort, order>>,
            [user |-> findUser(userId),
             resources |-> IF sort = "access_type"
                             THEN sortByAccessType(slice(accessible, offset, limit), order)
                             ELSE slice(accessible, offset, limit),
             pagination |-> [total |-> Len(accessible), limit |-> limit, offset |-> offset,
                             hasMore |-> offset + limit < Len(accessible)]]) :
          accessible \in accessibleResources(userId, sort, order)})

(***************************************************************************)
(* GET /user/:id/resources (routes/sharing.routes.ts)                      *)
(***************************************************************************)
\* the properties the response schema declares for an item of data.resources
resourceProperties ==
  {"id", "name", "description", "isGlobal", "accessType", "grantedAt", "createdAt"}

\* serialization by the response schema: a property the schema does not
\* declare is not written, a declared one the object lacks is absent
serializeResource(resource) ==
  [property \in DOMAIN resource \cap resourceProperties |-> resource[property]]

\* the replies of the handler: the service is called with sort name, order asc
userResourcesRoute(id, limit, offset) ==
  {IF response.error = NoError
     THEN [statusCode |-> 200, success |-> TRUE,
           data |-> [user |-> response.result.user,
                     resources |-> [i \in DOMAIN response.result.resources |->
                                      serializeResource(response.result.resources[i])],
                     pagination |-> response.result.pagination]]
     ELSE [statusCode |-> response.error.statusCode, success |-> FALSE,
           error |-> response.error] :
   response \in getUserResources(id, limit, offset, "name", "asc")}

(***************************************************************************)
(* SharingService.getResourcesWithUserCount                                *)
(***************************************************************************)
\* a sort the query applies and the sort the service applies to the page itself
StatsSortParams == {<<"name", "asc">>, <<"user_count", "desc">>}

resourceStats_counting_global(resource) ==
  [id |-> resource.id, name |-> resource.name, isGlobal |-> resource.isGlobal,
   createdAt |-> resource.createdAt, userCount |-> Cardinality(users),
   directShares |-> Cardinality({sh \in sharesOf(resource) : sh.shareType = "user"}),
   groupShares |-> Cardinality({sh \in sharesOf(resource) : sh.shareType = "group"})]

\* the callback of resources.map: one resource with its user and share counts
resourceStats(resource) ==
  IF resource.isGlobal
    THEN [id |-> resource.id, name |-> resource.name, isGlobal |-> resource.isGlobal,
          createdAt |-> resource.createdAt, userCount |-> Cardinality(users),
          directShares |-> 0, groupShares |-> 0]
  ELSE LET directUserIds == {share.targetId :
                               share \in {sh \in sharesOf(resource) : sh.shareType = "user"}}
           groupUserIds == {ug.userId :
                              ug \in {m \in userGroups :
                                        \E share \in sharesOf(resource) :
                                          share.shareType = "group" /\ m.groupId = share.targetId}}
       IN  [id |-> resource.id, name |-> resource.name, isGlobal |-> resource.isGlobal,
            createdAt |-> resource.createdAt,
            userCount |-> Cardinality(directUserIds \cup groupUserIds),
            directShares |-> Cardinality({sh \in sharesOf(resource) : sh.shareType = "user"}),
            groupShares |-> Cardinality({sh \in sharesOf(resource) : sh.shareType = "group"})]

filterMinUsers_keeping_all(processed, minUsers) == processed

\* processedResources.filter(resource => resource.userCount >= minUsers)
filterMinUsers(processed, minUsers) ==
  LET atLeast(r) == r.userCount >= minUsers
  IN  SelectSeq(processed, atLeast)

\* Array.prototype.sort by userCount: stable, ascending or descending
sortByUserCount(page, order) ==
  CHOOSE sorted \in [1..Len(page) -> {page[i] : i \in 1..Len(page)}] :
    \E perm \in [1..Len(page) -> 1..Len(page)] :
      /\ \A i, j \in 1..Len(page) : i # j => perm[i] # perm[j]
      /\ \A i \in 1..Len(page) : sorted[i] = page[perm[i]]
      /\ \A i, j \in 1..Len(page) : i < j =>
           LET a == page[perm[i]].userCount
               b == page[perm[j]].userCount
           IN  IF a = b THEN perm[i] < perm[j]
               ELSE IF order = "desc" THEN a > b ELSE a < b

RECURSIVE sumUserCount(_)
\* filteredResources.reduce((sum, r) => sum + r.userCount, 0)
sumUserCount(list) ==
  IF list = <<>> THEN 0 ELSE list[1].userCount + sumUserCount(Tail(list))

\* the quotient sum / count, kept as the pair it is computed from
quotient(sum, count) == [sum |-> sum, count |-> count]

\* the responses the call may produce in the current state
getResourcesWithUserCount(limit, offset, minUsers, sort, order) ==
  withStorage("getResourcesWithUserCount", <<limit, offset, minUsers, sort, order>>,
    {LET processedResources == [i \in DOMAIN page |-> resourceStats(page[i])]
         filtered == filterMinUsers(processedResources, minUsers)
         filteredResources == IF sort = "user_count" THEN sortByUserCount(filtered, order)
                              ELSE filtered
     IN  Returned("getResourcesWithUserCount", <<limit, offset, minUsers, sort, order>>,
           [resources |-> filteredResources,
            pagination |-> [total |-> Len(filteredResources), limit |-> limit, offset |-> offset,
                            hasMore |-> Len(filteredResources) = limit],
            summary |-> [totalResources |-> Cardinality(resources),
                         globalResources |-> Cardinality({r \in resources : r.isGlobal}),
                         totalUniqueUsers |-> Cardinality(users),
                         avgUsersPerResource |->
                           IF Len(filteredResources) > 0
                             THEN quotient(sumUserCount(filteredResources), Len(filteredResources))
                             ELSE quotient(0, 1)]]) :
     page \in {slice(all, offset, limit) : all \in findManyResources(sort, order)}})

(***************************************************************************)
(* SharingService.getUsersWithResourceCount                                *)
(***************************************************************************)
\* the sort fields of the route (name, email, resourceCount, createdAt), the
\* one the service compares with (resource_count) and one that is neither
UserSortParams ==
  {<<"name", "asc">>, <<"email", "desc">>, <<"createdAt", "asc">>,
   <<"resourceCount", "desc">>, <<"resource_count", "desc">>, <<"id", "desc">>}

\* db.user.findMany({ orderBy }) with the whitelisted sort column, name asc otherwise
findManyUsers(sort, order) ==
  IF sort \in {"name", "email", "createdAt"} THEN orderBy(users, sort, order)
  ELSE orderBy(users, "name", "asc")

\* the callback of users.map: one user with the counts of the resources shared
\* with them
userStats(user) ==
  LET userGroupIds == groupIdsOf(user.id)
      directShares == {share \in resourceShares :
                         share.shareType = "user" /\ share.targetId = user.id}
      groupShares == {share \in resourceShares :
                        share.shareType = "group" /\ share.targetId \in userGroupIds}
      allResourceIds == {share.resourceId : share \in directShares \cup groupShares}
      globalResourcesCount == Cardinality({r \in resources : r.isGlobal})
  IN  [id |-> user.id, name |-> user.name, email |-> user.email, createdAt |-> user.createdAt,
       resourceCount |-> Cardinality(allResourceIds) + globalResourcesCount,
       directResources |-> Cardinality(directShares),
       groupResources |-> Cardinality(groupShares),
       globalResources |-> globalResourcesCount]

\* processedUsers.filter(user => user.resourceCount >= minResources)
filterMinResources(processed, minResources) ==
  LET atLeast(u) == u.resourceCount >= minResources
  IN  SelectSeq(processed, atLeast)

\* Array.prototype.sort by resourceCount: stable, ascending or descending
sortByResourceCount(page, order) ==
  CHOOSE sorted \in [1..Len(page) -> {page[i] : i \in 1..Len(page)}] :
    \E perm \in [1..Len(page) -> 1..Len(page)] :
      /\ \A i, j \in 1..Len(page) : i # j => perm[i] # perm[j]
      /\ \A i \in 1..Len(page) : sorted[i] = page[perm[i]]
      /\ \A i, j \in 1..Len(page) : i < j =>
           LET a == page[perm[i]].resourceCount
               b == page[perm[j]].resourceCount
           IN  IF a = b THEN perm[i] < perm[j]
               ELSE IF order = "desc" THEN a > b ELSE a < b

RECURSIVE sumResourceCount(_)
\* filteredUsers.reduce((sum, u) => sum + u.resourceCount, 0)
sumResourceCount(list) ==
  IF list = <<>> THEN 0 ELSE list[1].resourceCount + sumResourceCount(Tail(list))

\* the responses the call may produce in the current state
getUsersWithResourceCount(limit, offset, minResources, sort, order) ==
  withStorage("getUsersWithResourceCount", <<limit, offset, minResources, sort, order>>,
    {LET processedUsers == [i \in DOMAIN page |-> userStats(page[i])]
         filtered == filterMinResources(processedUsers, minResources)
         filteredUsers == IF sort = "resource_count" THEN sortByResourceCount(filtered, order)
                          ELSE filtered
     IN  Returned("getUsersWithResourceCount", <<limit, offset, minResources, sort, order>>,
           [users |-> filteredUsers,
            pagination |-> [total |-> Len(filteredUsers), limit |-> limit, offset |-> offset,
                            hasMore |-> Len(filteredUsers) = limit],
            summary |-> [totalUsers |-> Cardinality(users),
                         totalResources |-> Cardinality(resources),
                         avgResourcesPerUser |->
                           IF Len(filteredUsers) > 0
                             THEN quotient(sumResourceCount(filteredUsers), Len(filteredUsers))
                             ELSE quotient(0, 1)]]) :
     page \in {slice(all, offset, limit) : all \in findManyUsers(sort, order)}})

(***************************************************************************)
(* The store and its writers.                                              *)
(***************************************************************************)
Init ==
  /\ users = {}
  /\ groups = {}
  /\ userGroups = {}
  /\ resources = {}
  /\ resourceShares = {}
  /\ resourceSeq = 0
  /\ shareSeq = 0
  /\ resp = [op |-> "init", args |-> <<>>, error |-> NoError, result |-> "void"]
  /\ calls = [i \in 1..MaxCalls |-> idle]
  /\ faulty = FALSE
  /\ clock = 0

CreateUser == createUser
CreateGroup == createGroup
AddUserToGroup == \E u \in AnyUserId, g \in AnyGroupId : addUserToGroup(u, g)
RemoveUserFromGroup == \E u \in AnyUserId, g \in AnyGroupId : removeUserFromGroup(u, g)
CreateResource == \E isGlobal \in BOOLEAN : createResource(isGlobal)
UpdateResource == \E id \in AnyResourceId, updates \in Updates : updateResource(id, updates)
DeleteResource == \E id \in AnyResourceId : deleteResource(id)
CreateShare == \E r \in AnyResourceId, t \in ShareType : \E target \in AnyTargetId(t) : createShare(r, t, target)
CreateShareSimple ==
  \E r \in AnyResourceId, t \in ShareType : \E target \in AnyTargetId(t) : createShare_simple(r, t, target)
RemoveShare == \E r \in AnyResourceId, t \in ShareType : \E target \in AnyTargetId(t) : removeShare(r, t, target)

Write ==
  \/ CreateUser
  \/ CreateGroup
  \/ AddUserToGroup
  \/ RemoveUserFromGroup
  \/ CreateResource
  \/ UpdateResource
  \/ DeleteResource
  \/ CreateShare
  \/ CreateShareSimple
  \/ RemoveShare

GetResourceAccessList_dropping_shares ==
  /\ \E resourceId \in AnyResourceId : resp' \in getResourceAccessList(resourceId)
  /\ resourceShares' = {}
  /\ UNCHANGED <<users, groups, userGroups, resources, resourceSeq, shareSeq, calls, faulty, clock>>

GetResourceAccessList ==
  /\ \E resourceId \in AnyResourceId : resp' \in getResourceAccessList(resourceId)
  /\ UNCHANGED <<users, groups, userGroups, resources, resourceShares, resourceSeq, shareSeq, calls, faulty, clock>>

CheckUserAccess ==
  /\ \E userId \in AnyUserId, resourceId \in AnyResourceId :
       resp' \in checkUserAccess(userId, resourceId)
  /\ UNCHANGED <<users, groups, userGroups, resources, resourceShares, resourceSeq, shareSeq, calls, faulty, clock>>

GetUserResources ==
  /\ \E userId \in AnyUserId, limit \in 1..MaxLimit, offset \in 0..MaxOffset,
        params \in SortParams :
       resp' \in getUserResources(userId, limit, offset, params[1], params[2])
  /\ UNCHANGED <<users, groups, userGroups, resources, resourceShares, resourceSeq, shareSeq, calls, faulty, clock>>

Next ==
  \/ Write
  \/ GetResourceAccessList
  \/ CheckUserAccess

Spec == Init /\ [][Next]_vars

\* the writers that fill the store
Provision ==
  \/ CreateUser
  \/ CreateGroup
  \/ AddUserToGroup
  \/ CreateResource
  \/ UpdateResource
  \/ CreateShare

NextUserResources ==
  \/ Provision
  \/ GetUserResources

SpecUserResources == Init /\ [][NextUserResources]_vars

GetResourcesWithUserCount ==
  /\ \E limit \in 1..MaxLimit, offset \in 0..MaxOffset, minUsers \in 0..MaxMinUsers,
        params \in StatsSortParams :
       resp' \in getResourcesWithUserCount(limit, offset, minUsers, params[1], params[2])
  /\ UNCHANGED <<users, groups, userGroups, resources, resourceShares, resourceSeq, shareSeq, calls, faulty, clock>>

NextResourceStats ==
  \/ Provision
  \/ GetResourcesWithUserCount

SpecResourceStats == Init /\ [][NextResourceStats]_vars

BeginCreateShare ==
  \E i \in 1..MaxCalls, variant \in Variant, r \in AnyResourceId, t \in ShareType :
    \E target \in AnyTargetId(t) : beginCreateShare(i, variant, r, t, target)
FindResourceStep == \E i \in 1..MaxCalls : findResourceStep(i)
FindTargetStep == \E i \in 1..MaxCalls : findTargetStep(i)
CreateStep == \E i \in 1..MaxCalls : createStep(i)

\* createShare calls interleaved with each other and with the creation of the
\* rows they refer to
NextConcurrent ==
  \/ CreateUser
  \/ CreateGroup
  \/ CreateResource
  \/ BeginCreateShare
  \/ FindResourceStep
  \/ FindTargetStep
  \/ CreateStep

SpecConcurrent == Init /\ [][NextConcurrent]_vars

GetUsersWithResourceCount ==
  /\ \E limit \in 1..MaxLimit, offset \in 0..MaxOffset, minResources \in 0..MaxMinResources,
        params \in UserSortParams :
       resp' \in getUsersWithResourceCount(limit, offset, minResources, params[1], params[2])
  /\ UNCHANGED <<users, groups, userGroups, resources, resourceShares, resourceSeq, shareSeq, calls, faulty, clock>>

NextUserStats ==
  \/ Provision
  \/ GetUsersWithResourceCount

SpecUserStats == Init /\ [][NextUserStats]_vars

\* the storage starts to fail statements (connection lost), and recovers
StorageFails ==
  /\ ~ faulty
  /\ faulty' = TRUE
  /\ UNCHANGED <<users, groups, userGroups, resources, resourceShares, resourceSeq, shareSeq, resp, calls, clock>>

StorageRecovers ==
  /\ faulty
  /\ faulty' = FALSE
  /\ UNCHANGED <<users, groups, userGroups, resources, resourceShares, resourceSeq, shareSeq, resp, calls, clock>>

\* the paginated queries called without parameters: limit 50, offset 0, no
\* minimum, sort name, order asc
GetUserResourcesDefault ==
  /\ \E userId \in AnyUserId : resp' \in getUserResources(userId, DefaultLimit, 0, "name", "asc")
  /\ UNCHANGED <<users, groups, userGroups, resources, resourceShares, resourceSeq, shareSeq, calls, faulty, clock>>

GetResourcesWithUserCountDefault ==
  /\ resp' \in getResourcesWithUserCount(DefaultLimit, 0, 0, "name", "asc")
  /\ UNCHANGED <<users, groups, userGroups, resources, resourceShares, resourceSeq, shareSeq, calls, faulty, clock>>

GetUsersWithResourceCountDefault ==
  /\ resp' \in getUsersWithResourceCount(DefaultLimit, 0, 0, "name", "asc")
  /\ UNCHANGED <<users, groups, userGroups, resources, resourceShares, resourceSeq, shareSeq, calls, faulty, clock>>

\* the five queries over a storage that may fail
NextFaults ==
  \/ Provision
  \/ StorageFails
  \/ StorageRecovers
  \/ GetResourceAccessList
  \/ CheckUserAccess
  \/ GetUserResourcesDefault
  \/ GetResourcesWithUserCountDefault
  \/ GetUsersWithResourceCountDefault

SpecFaults == Init /\ [][NextFaults]_vars


(***************************************************************************)
(* Properties of getResourceAccessList and checkUserAccess (Spec).         *)
(***************************************************************************)
isAccessList == resp.op = "getResourceAccessList" /\ resp.error = NoError
isAccessCheck == resp.op = "checkUserAccess" /\ resp.error = NoError

\* number of entries of a list that are about the given id
occurrences(list, id) == Cardinality({i \in DOMAIN list : list[i].id = id})

hasDirectShare(userId, resourceId) ==
  \E rs \in resourceShares :
    rs.resourceId = resourceId /\ rs.shareType = "user" /\ rs.targetId = userId

hasGroupShare(userId, resourceId) ==
  \E rs \in resourceShares, ug \in userGroups :
    /\ rs.resourceId = resourceId /\ rs.shareType = "group"
    /\ rs.targetId = ug.groupId /\ ug.userId = userId

\* C1: in the access list of a non-global resource, a user who holds a direct
\* share of the resource and belongs to a group the resource is shared with is
\* listed exactly once, with access type direct.
C1_DirectAndGroupListedOnce ==
  (isAccessList /\ ~ resp.result.metadata.isGlobal) =>
    \A u \in users :
      (hasDirectShare(u.id, resp.args[1]) /\ hasGroupShare(u.id, resp.args[1])) =>
        /\ occurrences(resp.result.users, u.id) = 1
        /\ \A i \in DOMAIN resp.result.users :
             resp.result.users[i].id = u.id => resp.result.users[i].accessType = "direct"

\* C2: for every existing user and existing resource the three resolvers agree:
\* checkUserAccess grants access, the resource is in the user's unpaginated
\* resource list, and the user is in the resource's access list.
C2_ThreePathsAgree ==
  \A u \in users, r \in resources :
    \A check \in checkUserAccess(u.id, r.id),
       mine \in getUserResources(u.id, DefaultLimit, 0, "name", "asc"),
       theirs \in getResourceAccessList(r.id) :
      /\ check.result.hasAccess = (occurrences(mine.result.resources, r.id) > 0)
      /\ check.result.hasAccess = (occurrences(theirs.result.users, u.id) > 0)

C2_Witness ==
  /\ isAccessCheck
  /\ resp.result.hasAccess
  /\ resp.result.accessType = "group"
  /\ userExists(resp.args[1])
  /\ \E r \in resources : ~ r.isGlobal /\ ~ hasDirectShare(resp.args[1], r.id)
                          /\ ~ hasGroupShare(resp.args[1], r.id)

\* C3: the access list of a global resource is exactly the users table, every
\* entry tagged global, with totalUsers the number of users and both share
\* counts zero, whatever share rows the resource has.
C3_GlobalListsEveryUser ==
  (isAccessList /\ findResource(resp.args[1]).isGlobal) =>
    /\ {resp.result.users[i].id : i \in DOMAIN resp.result.users} = userIds
    /\ Len(resp.result.users) = Cardinality(users)
    /\ \A i \in DOMAIN resp.result.users : resp.result.users[i].accessType = "global"
    /\ resp.result.metadata.totalUsers = Cardinality(users)
    /\ resp.result.metadata.directShares = 0
    /\ resp.result.metadata.groupShares = 0

C3_Witness ==
  /\ isAccessList
  /\ findResource(resp.args[1]).isGlobal
  /\ Cardinality(users) = 2
  /\ \E rs \in resourceShares : rs.resourceId = resp.args[1] /\ rs.shareType = "user"
  /\ \E rs \in resourceShares : rs.resourceId = resp.args[1] /\ rs.shareType = "group"

\* C5: every stored share row of type user targets an existing user and every
\* row of type group targets an existing group (createShare refuses a target
\* that does not exist).
C5_ShareTargetsExist ==
  \A rs \in resourceShares :
    /\ rs.shareType = "user" => userExists(rs.targetId)
    /\ rs.shareType = "group" => groupExists(rs.targetId)

\* C8: checkUserAccess of an existing user on a missing resource returns
\* {hasAccess: false} and no error; getResourceAccessList of a missing resource
\* throws the not-found error and returns nothing.
C8_MissingResourceAsymmetry ==
  /\ (resp.op = "checkUserAccess" /\ userExists(resp.args[1]) /\ ~ resourceExists(resp.args[2])) =>
       /\ resp.error = NoError
       /\ resp.result = [hasAccess |-> FALSE]
  /\ (resp.op = "getResourceAccessList" /\ ~ resourceExists(resp.args[1])) =>
       /\ resp.error.code = "RESOURCE_NOT_FOUND"
       /\ resp.error.statusCode = 404
       /\ resp.error.resource = "Resource"
       /\ resp.error.id = resp.args[1]
       /\ "result" \notin DOMAIN resp

C8_Witness ==
  /\ resp.op = "getResourceAccessList"
  /\ ~ resourceExists(resp.args[1])
  /\ resp.args[1] # Ghost
  /\ users # {}

\* C9: checkUserAccess reports the first applicable reason in the order global,
\* direct, group, and no access otherwise; grantedAt is absent for global and is
\* the creation time of a share that grants the access otherwise.
C9_AccessCheckPrecedence ==
  resp.op = "checkUserAccess" =>
    LET u == resp.args[1]
        r == resp.args[2]
    IN  /\ resp.error = NoError
        /\ IF resourceExists(r) /\ findResource(r).isGlobal
             THEN resp.result = [hasAccess |-> TRUE, accessType |-> "global"]
           ELSE IF resourceExists(r) /\ hasDirectShare(u, r)
             THEN \E rs \in resourceShares :
                    /\ rs.resourceId = r /\ rs.shareType = "user" /\ rs.targetId = u
                    /\ resp.result = [hasAccess |-> TRUE, accessType |-> "direct",
                                      grantedAt |-> rs.createdAt]
           ELSE IF resourceExists(r) /\ hasGroupShare(u, r)
             THEN \E rs \in resourceShares, ug \in userGroups :
                    /\ rs.resourceId = r /\ rs.shareType = "group"
                    /\ rs.targetId = ug.groupId /\ ug.userId = u
                    /\ resp.result = [hasAccess |-> TRUE, accessType |-> "group",
                                      grantedAt |-> rs.createdAt]
           ELSE resp.result = [hasAccess |-> FALSE]

C9_Witness ==
  /\ isAccessCheck
  /\ resp.result.hasAccess
  /\ resp.result.accessType = "direct"
  /\ hasGroupShare(resp.args[1], resp.args[2])
  /\ resp.result.grantedAt = 2

(***************************************************************************)
(* Properties of getUserResources (SpecUserResources).                     *)
(***************************************************************************)
isUserResources == resp.op = "getUserResources" /\ resp.error = NoError

min(a, b) == IF a < b THEN a ELSE b

\* ids of the resources the user can access by one of the three rules
accessibleIds(userId) ==
  {r.id : r \in {x \in resources : \/ x.isGlobal
                                   \/ hasDirectShare(userId, x.id)
                                   \/ hasGroupShare(userId, x.id)}}

\* the access type the precedence global, direct, group gives
expectedAccessType(userId, resourceId) ==
  IF findResource(resourceId).isGlobal THEN "global"
  ELSE IF hasDirectShare(userId, resourceId) THEN "direct"
  ELSE "group"

\* pagination.total is the number of distinct accessible resources, whatever
\* limit and offset the call is given
totalIsAccessibleCount ==
  LET u == resp.args[1]
  IN  /\ resp.result.pagination.total = Cardinality(accessibleIds(u))
      /\ \A limit \in 1..MaxLimit, offset \in 0..MaxOffset :
           \A other \in getUserResources(u, limit, offset, resp.args[4], resp.args[5]) :
             other.result.pagination.total = resp.result.pagination.total

\* C7: getUserResources(u, {limit: L, offset: O}) returns a resources list of
\* length min(L, total - O), and pagination.total is the number of distinct
\* resources u can access, the same for every L and O.
C7_PageLengthAndTotal ==
  isUserResources =>
    /\ Len(resp.result.resources) =
         min(resp.args[2], resp.result.pagination.total - resp.args[3])
    /\ totalIsAccessibleCount

\* C7 (amended): the length is min(L, total - O) when the offset is within the
\* list (O <= total) and 0 when it is past the end; pagination.total is the
\* number of distinct resources u can access, the same for every L and O.
C7_PageLengthWithinList ==
  isUserResources =>
    /\ Len(resp.result.resources) =
         IF resp.args[3] <= resp.result.pagination.total
           THEN min(resp.args[2], resp.result.pagination.total - resp.args[3])
           ELSE 0
    /\ totalIsAccessibleCount

C7_Witness ==
  /\ isUserResources
  /\ resp.args[2] = 2
  /\ resp.args[3] = 1
  /\ resp.result.pagination.total = 2
  /\ Len(resp.result.resources) = 1
  /\ \E r \in resources : hasDirectShare(resp.args[1], r.id) /\ hasGroupShare(resp.args[1], r.id)

\* C10: in the result of getUserResources(u) a resource appears at most once,
\* only if u can access it, and with the access type the precedence global,
\* direct, group gives; when the page covers the whole list every accessible
\* resource appears exactly once.
C10_OneEntryPerAccessibleResource ==
  isUserResources =>
    LET u == resp.args[1]
        list == resp.result.resources
    IN  /\ \A i \in DOMAIN list :
             /\ list[i].id \in accessibleIds(u)
             /\ list[i].accessType = expectedAccessType(u, list[i].id)
             /\ occurrences(list, list[i].id) = 1
        /\ \A r \in resources : r.id \notin accessibleIds(u) => occurrences(list, r.id) = 0
        /\ (resp.args[3] = 0 /\ resp.args[2] >= Cardinality(accessibleIds(u))) =>
             \A id \in accessibleIds(u) : occurrences(list, id) = 1

C10_Witness ==
  /\ isUserResources
  /\ resp.args[3] = 0
  /\ Len(resp.result.resources) = 1
  /\ resp.result.resources[1].accessType = "direct"
  /\ hasGroupShare(resp.args[1], resp.result.resources[1].id)
  /\ \E r \in resources : r.id \notin accessibleIds(resp.args[1])

(***************************************************************************)
(* Properties of getResourcesWithUserCount (SpecResourceStats).            *)
(***************************************************************************)
isResourceStats == resp.op = "getResourcesWithUserCount" /\ resp.error = NoError

\* the ordered list of all resources whose userCount is at least minUsers
eligibleResources(all, minUsers, sort, order) ==
  LET eligible == filterMinUsers([i \in DOMAIN all |-> resourceStats(all[i])], minUsers)
  IN  IF sort = "user_count" THEN sortByUserCount(eligible, order) ELSE eligible

\* C4: the page getResourcesWithUserCount returns is the window
\* [offset, offset + limit) of the ordered list of all resources whose
\* userCount is at least minUsers (the filter comes before limit and offset).
C4_FilterBeforePagination ==
  isResourceStats =>
    \E all \in findManyResources(resp.args[4], resp.args[5]) :
      resp.result.resources =
        slice(eligibleResources(all, resp.args[3], resp.args[4], resp.args[5]),
              resp.args[2], resp.args[1])

(***************************************************************************)
(* Properties of concurrent createShare calls (SpecConcurrent).            *)
(***************************************************************************)
isDone(call) == call.pc = "done"

\* the calls for the same key as the given call whose insert stored a row
winners(call) == {j \in DOMAIN calls : sameKey(calls[j], call) /\ calls[j].inserted}

\* C6: when createShare calls for the same (resourceId, shareType, targetId)
\* interleave in any order, exactly one of them inserts a row and every other
\* one fails with an error (no call returns normally without having inserted);
\* in every reachable state the share table holds at most one row per
\* (resourceId, shareType, targetId).  The calls that have one winner are those
\* the store accepts on their own: a call whose resource or target is missing
\* fails with its own error and inserts nothing.
C6_OneWinnerPerKey ==
  /\ \A a, b \in resourceShares :
       (a.resourceId = b.resourceId /\ a.shareType = b.shareType /\ a.targetId = b.targetId)
         => a = b
  /\ \A i \in DOMAIN calls :
       /\ Cardinality(winners(calls[i])) <= 1
       /\ (isDone(calls[i]) /\ ~ calls[i].inserted) =>
            calls[i].error.code \in {"DATABASE_ERROR", "RESOURCE_NOT_FOUND"}
       /\ (isDone(calls[i]) /\ calls[i].cause \in {"none", "unique"}) =>
            /\ Cardinality(winners(calls[i])) = 1
            /\ calls[i].inserted = (calls[i].error = NoError)
            /\ ~ calls[i].inserted => calls[i].error = createDatabaseError

C6_Witness ==
  \E i, j \in DOMAIN calls :
    /\ i # j
    /\ sameKey(calls[i], calls[j])
    /\ calls[i].variant # calls[j].variant
    /\ isDone(calls[i]) /\ calls[i].inserted /\ calls[i].overlapped
    /\ isDone(calls[j]) /\ calls[j].cause = "unique"

(***************************************************************************)
(* Properties that relate the statistics to the access list (Spec).        *)
(***************************************************************************)
\* the users that hold a direct share of the resource or belong to a group it
\* is shared with
usersWithAccess(resourceId) ==
  {u \in userIds : hasDirectShare(u, resourceId) \/ hasGroupShare(u, resourceId)}

\* the entries getResourcesWithUserCount (first page, no filter) may report
\* for the resource
statsOf(resourceId) ==
  UNION {{stats.result.resources[i] :
            i \in {k \in DOMAIN stats.result.resources :
                     stats.result.resources[k].id = resourceId}} :
         stats \in getResourcesWithUserCount(DefaultLimit, 0, 0, "name", "asc")}

\* C11: for every resource, metadata.totalUsers of getResourceAccessList equals
\* the userCount getResourcesWithUserCount reports for it, and both equal the
\* number of distinct users with a direct share or a membership in a shared
\* group (the number of users when the resource is global).
C11_TotalUsersIsUserCount ==
  isAccessList =>
    LET r == findResource(resp.args[1])
        distinctUsers == IF r.isGlobal THEN Cardinality(users)
                         ELSE Cardinality(usersWithAccess(r.id))
    IN  /\ resp.result.metadata.totalUsers = distinctUsers
        /\ \A entry \in statsOf(r.id) :
             /\ entry.userCount = resp.result.metadata.totalUsers
             /\ entry.userCount = distinctUsers

(***************************************************************************)
(* Properties of the statistics page (SpecResourceStats).                  *)
(***************************************************************************)
RECURSIVE totalUserCount(_, _)
\* sum of userCount over the first n entries of the list
totalUserCount(list, n) ==
  IF n = 0 THEN 0 ELSE list[n].userCount + totalUserCount(list, n - 1)

\* C12: getResourcesWithUserCount({minUsers: N}) returns no resource whose
\* computed userCount is below N, and summary.avgUsersPerResource times the
\* number of returned resources is the sum of userCount over exactly the
\* returned resources (the average is 0 when the page is empty).
C12_MinUsersAndAverage ==
  isResourceStats =>
    LET list == resp.result.resources
        avg == resp.result.summary.avgUsersPerResource
    IN  /\ \A i \in DOMAIN list :
             /\ list[i].userCount >= resp.args[3]
             /\ list[i].userCount = resourceStats(findResource(list[i].id)).userCount
        /\ avg.sum * Len(list) = totalUserCount(list, Len(list)) * avg.count
        /\ avg.count > 0
        /\ Len(list) = 0 => avg.sum = 0

C12_Witness ==
  /\ isResourceStats
  /\ resp.args[3] = 1
  /\ resp.args[2] = 0
  /\ Len(resp.result.resources) = 1
  /\ resp.result.summary.avgUsersPerResource.sum = 2
  /\ \E r \in resources : resourceStats(r).userCount = 0

(***************************************************************************)
(* Properties of getUsersWithResourceCount (SpecUserStats).                *)
(***************************************************************************)
isUserStats == resp.op = "getUsersWithResourceCount" /\ resp.error = NoError

\* C13: for every user getUsersWithResourceCount returns, resourceCount is the
\* number of distinct resources the user can access, which is the
\* pagination.total getUserResources reports for that user in the same state.
C13_ResourceCountIsAccessibleTotal ==
  isUserStats =>
    \A i \in DOMAIN resp.result.users :
      LET entry == resp.result.users[i]
      IN  /\ entry.resourceCount = Cardinality(accessibleIds(entry.id))
          /\ \A mine \in getUserResources(entry.id, DefaultLimit, 0, "name", "asc") :
               mine.result.pagination.total = entry.resourceCount

(***************************************************************************)
(* Properties of the stored tables (Spec).                                 *)
(***************************************************************************)
\* C14: no resource is global and has a share row: the global resources and
\* the resources with share rows are disjoint sets.
C14_GlobalDisjointFromShared ==
  \A r \in resources : r.isGlobal => ~ \E rs \in resourceShares : rs.resourceId = r.id

\* the value of a returned user in the field it is to be ordered by
sortFieldOf(entry, sort) ==
  IF sort = "resourceCount" THEN entry.resourceCount ELSE columnOf(entry, sort)

isOrderedBy(list, sort, order) ==
  \A i \in 1..(Len(list) - 1) :
    IF order = "desc" THEN sortFieldOf(list[i], sort) >= sortFieldOf(list[i + 1], sort)
    ELSE sortFieldOf(list[i], sort) <= sortFieldOf(list[i + 1], sort)

\* C15: getUsersWithResourceCount called with sort field name, email,
\* createdAt or resourceCount returns the users ordered by that field in the
\* requested order; called with another sort field it returns them ordered by
\* name ascending and raises no error.  (The service's own spelling
\* resource_count is left aside: the claim does not name it.)
C15_SortFields ==
  (resp.op = "getUsersWithResourceCount" /\ resp.args[4] # "resource_count") =>
    /\ resp.error = NoError
    /\ IF resp.args[4] \in {"name", "email", "createdAt", "resourceCount"}
         THEN isOrderedBy(resp.result.users, resp.args[4], resp.args[5])
         ELSE isOrderedBy(resp.result.users, "name", "asc")

\* C16: the users list getResourceAccessList returns is sorted by user name
\* ascending, for a global resource as for any other.
C16_AccessListSortedByName ==
  isAccessList =>
    \A i \in 1..(Len(resp.result.users) - 1) :
      resp.result.users[i].name <= resp.result.users[i + 1].name

(***************************************************************************)
(* Properties of GET /user/:id/resources (SpecUserResources).              *)
(***************************************************************************)
\* C17: each resource in the reply of GET /user/{id}/resources carries
\* grantedAt, the creation time of a share that grants the access, when its
\* access type is direct or group, and carries no grantedAt when it is global.
C17_GrantedAtOfShare ==
  \A u \in users, limit \in 1..MaxLimit, offset \in 0..MaxOffset :
    \A reply \in userResourcesRoute(u.id, limit, offset) :
      \A i \in DOMAIN reply.data.resources :
        LET entry == reply.data.resources[i]
        IN  IF entry.accessType = "global" THEN "grantedAt" \notin DOMAIN entry
            ELSE /\ "grantedAt" \in DOMAIN entry
                 /\ \E rs \in resourceShares :
                      /\ rs.resourceId = entry.id
                      /\ rs.createdAt = entry.grantedAt
                      /\ IF entry.accessType = "direct"
                           THEN rs.shareType = "user" /\ rs.targetId = u.id
                           ELSE rs.shareType = "group" /\ rs.targetId \in groupIdsOf(u.id)

(***************************************************************************)
(* What checkUserAccess depends on (Spec).                                 *)
(***************************************************************************)
\* the results an access check may give, written as a function of nothing but
\* its arguments: the user id, whether the resource exists, whether it is
\* global, the share rows on the resource, the groups the user belongs to
accessDecision(userId, exists, isGlobal, sharesOnResource, memberships) ==
  LET direct == {rs \in sharesOnResource : rs.shareType = "user" /\ rs.targetId = userId}
      viaGroup == {rs \in sharesOnResource :
                     rs.shareType = "group" /\ rs.targetId \in memberships}
  IN  IF ~ exists THEN {[hasAccess |-> FALSE]}
      ELSE IF isGlobal THEN {[hasAccess |-> TRUE, accessType |-> "global"]}
      ELSE IF direct # {}
        THEN {[hasAccess |-> TRUE, accessType |-> "direct", grantedAt |-> rs.createdAt] :
                rs \in direct}
      ELSE IF viaGroup # {}
        THEN {[hasAccess |-> TRUE, accessType |-> "group", grantedAt |-> rs.createdAt] :
                rs \in viaGroup}
      ELSE {[hasAccess |-> FALSE]}

\* C18: the result of checkUserAccess(u, r) is determined by whether r exists,
\* r.isGlobal, the share rows on r and u's group memberships alone: in every
\* state it is the same function of these, so two states that agree on them
\* give the same result whatever else they store.
C18_AccessCheckDependsOnPairOnly ==
  \A u \in AnyUserId, r \in AnyResourceId :
    /\ \A check \in checkUserAccess(u, r) : check.error = NoError
    /\ {check.result : check \in checkUserAccess(u, r)} =
         accessDecision(u,
                        \E x \in resources : x.id = r,
                        \E x \in resources : x.id = r /\ x.isGlobal,
                        {rs \in resourceShares : rs.resourceId = r},
                        {m.groupId : m \in {ug \in userGroups : ug.userId = u}})

C18_Witness ==
  /\ isAccessCheck
  /\ ~ resp.result.hasAccess
  /\ userExists(resp.args[1])
  /\ resourceExists(resp.args[2])
  /\ \E rs \in resourceShares : rs.resourceId # resp.args[2] /\ rs.targetId = resp.args[1]
  /\ \E rs \in resourceShares, ug \in userGroups :
       /\ rs.resourceId = resp.args[2] /\ rs.shareType = "group"
       /\ ug.groupId = rs.targetId /\ ug.userId # resp.args[1]

(***************************************************************************)
(* Errors of the queries over a storage that may fail (SpecFaults).        *)
(***************************************************************************)
\* what a failed call gives its caller: an error of one of the two kinds and
\* no result; a not-found error is the given one, thrown only when the entity
\* is missing
failsWith(response, notFound, missing) ==
  /\ response.error # NoError =>
       /\ "result" \notin DOMAIN response
       /\ response.error \in {notFound, createDatabaseError}
  /\ response.error = notFound => missing
  /\ missing => response.error # NoError
  /\ (missing /\ ~ faulty) => response.error = notFound

\* C19: getResourceAccessList of a missing resource and getUserResources of a
\* missing user fail with the not-found error that names the entity kind
\* (Resource, User) and the id, not rewrapped as a database error; a failure of
\* the storage in these operations reaches the caller as a database error; a
\* failed call returns no result.
C19_NotFoundKeptStorageFailureWrapped ==
  /\ \A r \in AnyResourceId :
       /\ \A response \in getResourceAccessList(r) :
            failsWith(response, createNotFoundError("Resource", r), ~ resourceExists(r))
       /\ faulty => Threw("getResourceAccessList", <<r>>, createDatabaseError)
                      \in getResourceAccessList(r)
  /\ \A u \in AnyUserId :
       /\ \A response \in getUserResources(u, DefaultLimit, 0, "name", "asc") :
            failsWith(response, createNotFoundError("User", u), ~ userExists(u))
       /\ faulty => Threw("getUserResources", <<u, DefaultLimit, 0, "name", "asc">>,
                          createDatabaseError)
                      \in getUserResources(u, DefaultLimit, 0, "name", "asc")
  /\ (resp.op \in {"getResourceAccessList", "getUserResources"} /\ resp.error # NoError) =>
       /\ "result" \notin DOMAIN resp
       /\ resp.error.code \in {"RESOURCE_NOT_FOUND", "DATABASE_ERROR"}
       /\ resp.error.code = "RESOURCE_NOT_FOUND" =>
            /\ resp.error.statusCode = 404
            /\ resp.error.id = resp.args[1]
            /\ resp.error.resource =
                 (IF resp.op = "getUserResources" THEN "User" ELSE "Resource")

C19_Witness ==
  /\ faulty
  /\ resp.op = "getUserResources"
  /\ resp.error = createDatabaseError
  /\ userExists(resp.args[1])
  /\ \E r \in resources : r.id \in accessibleIds(resp.args[1])
  /\ \E response \in getUserResources(Ghost, DefaultLimit, 0, "name", "asc") :
       response.error = createNotFoundError("User", Ghost)

QueryOps ==
  {"getResourceAccessList", "getUserResources", "checkUserAccess",
   "getResourcesWithUserCount", "getUsersWithResourceCount"}

\* C20: getResourceAccessList, getUserResources, checkUserAccess,
\* getResourcesWithUserCount and getUsersWithResourceCount leave the users,
\* groups, memberships, resources and shares tables unchanged, whether the
\* call succeeds or fails: a step that ends with the response of one of them,
\* returned or thrown, changes no table.
C20_QueriesLeaveTablesUnchanged ==
  [][resp'.op \in QueryOps => tables' = tables]_vars

C20_Witness ==
  /\ resp.op = "getUsersWithResourceCount"
  /\ resp.error = createDatabaseError
  /\ faulty
  /\ resourceShares # {}
  /\ userGroups # {}
  /\ Cardinality(resources) = MaxResources


\* ---------------------------------------------------------------------------
\* Memberships over time: now() of a later insert reads a later clock
\* ---------------------------------------------------------------------------

\* time passes between two calls; the response of the earlier call is consumed
Tick ==
  /\ clock < MaxClock
  /\ clock' = clock + 1
  /\ resp' = [op |-> "init", args |-> <<>>, error |-> NoError, result |-> "void"]
  /\ UNCHANGED <<users, groups, userGroups, resources, resourceShares, resourceSeq, shareSeq, calls, faulty>>

NextMembership ==
  \/ CreateUser
  \/ CreateGroup
  \/ AddUserToGroup
  \/ RemoveUserFromGroup
  \/ Tick

SpecMembership == Init /\ [][NextMembership]_vars

\* ---------------------------------------------------------------------------
\* C21
\* ---------------------------------------------------------------------------

membershipRows(userId, groupId) ==
  {ug \in userGroups : ug.userId = userId /\ ug.groupId = groupId}

\* C21: the membership table holds at most one row per (userId, groupId), and
\* addUserToGroup for a user who is already a member of the group returns
\* without an error and leaves the membership table unchanged.
C21_MembershipUniqueAndIdempotent ==
  /\ [](\A u \in AnyUserId, g \in AnyGroupId : Cardinality(membershipRows(u, g)) <= 1)
  /\ [][\A u \in AnyUserId, g \in AnyGroupId :
          (isMember(u, g) /\ addUserToGroup(u, g)) =>
            /\ resp'.op = "addUserToGroup"
            /\ resp'.error = NoError
            /\ userGroups' = userGroups]_vars

\* the call that just returned was made after every row was written, and every
\* user is a member of every group: it added a member again
C21_Witness ==
  /\ resp.op = "addUserToGroup"
  /\ resp.error = NoError
  /\ userGroups # {}
  /\ \A ug \in userGroups : ug.joinedAt < clock
  /\ \A u \in userIds, g \in groups : isMember(u, g)


\* ---------------------------------------------------------------------------
\* C22
\* ---------------------------------------------------------------------------

\* C22: for every resource, the directShares and groupShares that
\* getResourcesWithUserCount reports equal those of the metadata of
\* getResourceAccessList in the same state: the numbers of user and of group
\* share rows of a non-global resource, and 0 and 0 for a global resource
\* even when it has share rows.
C22_ShareCountsAgree ==
  isAccessList =>
    LET r == findResource(resp.args[1])
        meta == resp.result.metadata
    IN  /\ statsOf(r.id) # {}
        /\ \A entry \in statsOf(r.id) :
             /\ entry.directShares = meta.directShares
             /\ entry.groupShares = meta.groupShares
        /\ meta.directShares = IF r.isGlobal THEN 0 ELSE countShares(r.id, "user")
        /\ meta.groupShares = IF r.isGlobal THEN 0 ELSE countShares(r.id, "group")

\* the list of a global resource with a share row, while another resource that
\* is not global has one as well
C22_Witness ==
  /\ isAccessList
  /\ findResource(resp.args[1]).isGlobal
  /\ countShares(resp.args[1], "group") = 1
  /\ \E r \in resources : ~ r.isGlobal /\ countShares(r.id, "user") = 1


(***************************************************************************)
(* checkUserAccess step by step: every await of the method is a step, so    *)
(* that calls which write shares and memberships commit between its reads.  *)
(* A call keeps its parameters, the await it is at, the group ids its       *)
(* membership read returned, and once it is done its result.                *)
(***************************************************************************)
\* the user has access to the resource in the committed state
hasAccessTo(userId, resourceId) ==
  /\ resourceExists(resourceId)
  /\ \/ findResource(resourceId).isGlobal
     \/ hasDirectShare(userId, resourceId)
     \/ hasGroupShare(userId, resourceId)

checking(call) ==
  call.pc \in {"checkResource", "checkDirect", "checkMemberships", "checkGroup"}

\* the call returns the result to its caller
finish(i, result) ==
  /\ calls' = [calls EXCEPT ![i] = idle]
  /\ resp' = Returned("checkUserAccess", <<calls[i].userId, calls[i].resourceId>>, result)

\* the call goes on to its next await
proceed(i, pc, groupIds) ==
  /\ calls' = [calls EXCEPT ![i] = [calls[i] EXCEPT !.pc = pc, !.groupIds = groupIds]]
  /\ UNCHANGED resp

\* checkUserAccess(userId, resourceId) is called
beginCheckUserAccess(i, variant, userId, resourceId) ==
  /\ \A j \in DOMAIN calls : calls[j].pc = "idle" /\ i <= j
  /\ calls' = [calls EXCEPT ![i] =
                 [pc |-> "checkResource", variant |-> variant, userId |-> userId,
                  resourceId |-> resourceId, groupIds |-> {}]]
  /\ UNCHANGED <<users, groups, userGroups, resources, resourceShares, resourceSeq, shareSeq, resp, faulty, clock>>

\* await db.resource.findUnique({ where: { id: resourceId }, select: { isGlobal: true } })
checkResourceStep(i) ==
  /\ calls[i].pc = "checkResource"
  /\ IF ~ resourceExists(calls[i].resourceId)
       THEN finish(i, [hasAccess |-> FALSE])
     ELSE IF findResource(calls[i].resourceId).isGlobal
       THEN finish(i, [hasAccess |-> TRUE, accessType |-> "global"])
     ELSE proceed(i, "checkDirect", {})
  /\ UNCHANGED <<users, groups, userGroups, resources, resourceShares, resourceSeq, shareSeq, faulty, clock>>

\* await db.resourceShare.findFirst({ where: { resourceId, shareType: 'user', targetId: userId } })
checkDirectStep(i) ==
  /\ calls[i].pc = "checkDirect"
  /\ IF directAccess(calls[i].userId, calls[i].resourceId) # {}
       THEN \E rs \in directAccess(calls[i].userId, calls[i].resourceId) :
              finish(i, [hasAccess |-> TRUE, accessType |-> "direct", grantedAt |-> rs.createdAt])
     ELSE proceed(i, "checkMemberships", {})
  /\ UNCHANGED <<users, groups, userGroups, resources, resourceShares, resourceSeq, shareSeq, faulty, clock>>

\* await db.userGroup.findMany({ where: { userId }, select: { groupId: true } });
\* sharing.service.simple.ts returns without the last read when the list is empty
checkMembershipsStep(i) ==
  /\ calls[i].pc = "checkMemberships"
  /\ IF calls[i].variant = "simple" /\ groupIdsOf(calls[i].userId) = {}
       THEN finish(i, [hasAccess |-> FALSE])
     ELSE proceed(i, "checkGroup", groupIdsOf(calls[i].userId))
  /\ UNCHANGED <<users, groups, userGroups, resources, resourceShares, resourceSeq, shareSeq, faulty, clock>>

\* rows db.resourceShare.findFirst may return for the group ids read before
groupAccessIn(resourceId, groupIds) ==
  {rs \in resourceShares : /\ rs.resourceId = resourceId
                           /\ rs.shareType = "group"
                           /\ rs.targetId \in groupIds}

\* await db.resourceShare.findFirst({ where: { resourceId, shareType: 'group',
\*                                             targetId: { in: groupIds } } })
checkGroupStep(i) ==
  /\ calls[i].pc = "checkGroup"
  /\ IF groupAccessIn(calls[i].resourceId, calls[i].groupIds) # {}
       THEN \E rs \in groupAccessIn(calls[i].resourceId, calls[i].groupIds) :
              finish(i, [hasAccess |-> TRUE, accessType |-> "group", grantedAt |-> rs.createdAt])
     ELSE finish(i, [hasAccess |-> FALSE])
  /\ UNCHANGED <<users, groups, userGroups, resources, resourceShares, resourceSeq, shareSeq, faulty, clock>>

\* the calls made are those of a user who has access when the call starts
BeginCheckUserAccess ==
  \E i \in 1..MaxCalls, variant \in Variant, u \in userIds, r \in resourceIds :
    hasAccessTo(u, r) /\ beginCheckUserAccess(i, variant, u, r)
CheckResourceStep == \E i \in 1..MaxCalls : checkResourceStep(i)
CheckDirectStep == \E i \in 1..MaxCalls : checkDirectStep(i)
CheckMembershipsStep == \E i \in 1..MaxCalls : checkMembershipsStep(i)
CheckGroupStep == \E i \in 1..MaxCalls : checkGroupStep(i)

\* the state a call leads to still gives access to the user of the
\* checkUserAccess call in flight
keepsAccess ==
  \A i \in DOMAIN calls :
    checking(calls[i]) => hasAccessTo(calls[i].userId, calls[i].resourceId)'

\* one checkUserAccess call at a time, made by a user who has access to the
\* resource from the start of the call to its end: the calls that write
\* shares and memberships commit between its reads and never take the access
\* away
NextInterleaved ==
  \/ CreateUser /\ keepsAccess
  \/ CreateGroup /\ keepsAccess
  \/ CreateResource /\ keepsAccess
  \/ AddUserToGroup /\ keepsAccess
  \/ RemoveUserFromGroup /\ keepsAccess
  \/ CreateShare /\ keepsAccess
  \/ RemoveShare /\ keepsAccess
  \/ BeginCheckUserAccess
  \/ CheckResourceStep
  \/ CheckDirectStep
  \/ CheckMembershipsStep
  \/ CheckGroupStep

SpecInterleaved == Init /\ [][NextInterleaved]_vars

\* ---------------------------------------------------------------------------
\* C23
\* ---------------------------------------------------------------------------

\* C23: a checkUserAccess(u, r) call during which u has access to r in every
\* committed state, from its start to its end, returns hasAccess = true,
\* whatever createShare, removeShare, addUserToGroup and removeUserFromGroup
\* calls commit between its reads.  Every call of this specification is such
\* a call.
C23_AccessThroughoutIsGranted ==
  (resp.op = "checkUserAccess" /\ resp.error = NoError) =>
    resp.result.hasAccess

\* ---------------------------------------------------------------------------
\* C24
\* ---------------------------------------------------------------------------

\* non-global resources with a group share that targets the group
sharedWithGroup(groupId) ==
  {r \in resources : ~ r.isGlobal /\ sharesWithKey(r.id, "group", groupId) # {}}

\* the user belongs to a group other than the given one that the resource is
\* shared with
hasOtherGroupShare(userId, groupId, resourceId) ==
  \E rs \in resourceShares, ug \in userGroups :
    /\ rs.resourceId = resourceId /\ rs.shareType = "group"
    /\ rs.targetId = ug.groupId /\ ug.userId = userId /\ ug.groupId # groupId

sharesOn(resourceId) == {rs \in resourceShares : rs.resourceId = resourceId}

\* C25: the resourceId of every share row is the id of an existing resource;
\* once deleteResource(r) has completed, no share row of r remains and
\* checkUserAccess(u, r) returns hasAccess = false for every u.
C25_SharesDieWithResource ==
  /\ [](\A rs \in resourceShares : resourceExists(rs.resourceId))
  /\ [][(resp'.op = "deleteResource" /\ resp'.error = NoError) =>
        \A r \in AnyResourceId :
          deleteResource(r) =>
            /\ sharesOn(r)' = {}
            /\ \A u \in AnyUserId :
                 \A check \in checkUserAccess(u, r)' : ~ check.result.hasAccess]_vars

\* a resource that had a share row has just been deleted, while a share row of
\* another resource is still stored
C25_Witness ==
  /\ resp.op = "deleteResource"
  /\ resp.error = NoError
  /\ shareSeq > Cardinality(resourceShares)
  /\ \E rs \in resourceShares : rs.createdAt = 1
  /\ Cardinality(resources) < resourceSeq
  /\ \A id \in AnyResourceId : ~ resourceExists(id) => sharesOn(id) = {}


\* ---------------------------------------------------------------------------
\* C26
\* ---------------------------------------------------------------------------

\* C26: checkUserAccess(u, r) returns hasAccess = true only for an id u of the
\* users table; for an id that is not a user it returns hasAccess = false for
\* every resource, global ones included.
C26_AccessOnlyForUsers ==
  (isAccessCheck /\ resp.result.hasAccess) => userExists(resp.args[1])


\* ---------------------------------------------------------------------------
\* C27
\* ---------------------------------------------------------------------------

\* number of all resources whose userCount is at least minUsers
eligibleCount(minUsers) ==
  Cardinality({r \in resources : resourceStats(r).userCount >= minUsers})

\* C27: in the response of getResourcesWithUserCount, pagination.total is the
\* number of all resources with userCount >= minUsers, whatever limit and
\* offset are, and pagination.hasMore is true exactly when at least one such
\* resource lies beyond the returned page.
C27_TotalAndHasMore ==
  isResourceStats =>
    /\ resp.result.pagination.total = eligibleCount(resp.args[3])
    /\ resp.result.pagination.hasMore =
         (resp.args[2] + resp.args[1] < eligibleCount(resp.args[3]))


\* ---------------------------------------------------------------------------
\* C28
\* ---------------------------------------------------------------------------

\* the (user id, access type) pairs of the lists getResourceAccessList may return
listEntries(resourceId) ==
  {{<<list.result.users[i].id, list.result.users[i].accessType>> :
      i \in DOMAIN list.result.users} :
   list \in {l \in getResourceAccessList(resourceId) : l.error = NoError}}

\* the pairs the share rows of the resource and the memberships give
shareEntries(resourceId) ==
  {<<u, "direct">> : u \in {x \in userIds : hasDirectShare(x, resourceId)}}
    \cup {<<u, "group">> : u \in {x \in userIds : hasGroupShare(x, resourceId)}}

\* the resources table after updateResource(resourceId, {isGlobal: false}) is
\* applied to the state a step leads to
madePrivateAgain(resourceId) ==
  (resources' \ {findResource(resourceId)'})
    \cup {applyUpdates(findResource(resourceId)', [isGlobal |-> FALSE])}

\* C28: updateResource(r, {isGlobal: true}) followed by
\* updateResource(r, {isGlobal: false}) leaves the share rows of r unchanged,
\* so that the users and access types of getResourceAccessList(r) afterwards
\* are those before; in between, every user has access to r with reason global.
\* Before and after, the list is the one the share rows and the memberships
\* give, and neither update changes them; the second update gives back the
\* resources table the first one started from.
C28_GlobalToggleKeepsShares ==
  [][(resp'.op = "updateResource" /\ resp'.error = NoError) =>
     \A r \in resourceIds :
       /\ ( /\ ~ findResource(r).isGlobal
            /\ updateResource(r, [isGlobal |-> TRUE]) ) =>
              /\ listEntries(r) = {shareEntries(r)}
              /\ resourceShares' = resourceShares
              /\ shareEntries(r)' = shareEntries(r)
              /\ listEntries(r)' = {{<<u, "global">> : u \in userIds}}
              /\ \A u \in userIds : \A check \in checkUserAccess(u, r)' :
                   check.result.hasAccess /\ check.result.accessType = "global"
              /\ madePrivateAgain(r) = resources
       /\ ( /\ findResource(r).isGlobal
            /\ updateResource(r, [isGlobal |-> FALSE]) ) =>
              /\ resourceShares' = resourceShares
              /\ shareEntries(r)' = shareEntries(r)
              /\ listEntries(r)' = {shareEntries(r)}]_vars

\* the only resource has just been updated and is global, while it has a user
\* share and a group share with a member
C28_Witness ==
  /\ resp.op = "updateResource"
  /\ resp.error = NoError
  /\ Cardinality(users) = MaxUsers
  /\ \E r \in resources :
       /\ resources = {r}
       /\ r.isGlobal
       /\ countShares(r.id, "user") = 1
       /\ countShares(r.id, "group") = 1
       /\ shareEntries(r.id) # {}
       /\ \E u \in userIds : hasGroupShare(u, r.id)


\* ---------------------------------------------------------------------------
\* C29
\* ---------------------------------------------------------------------------

\* the share rows without their creation time
shareKeys(rows) == {<<rs.resourceId, rs.shareType, rs.targetId>> : rs \in rows}

\* C29: removeShare(r, type, t) deletes exactly the share row with the key
\* (r, type, t) and leaves every other row unchanged; when there is no such row
\* it succeeds and changes nothing; createShare(r, type, t) in a state without
\* that row followed by removeShare(r, type, t) gives back the share rows of
\* that state.
C29_RemoveShareExact ==
  [][/\ resp'.op = "removeShare" =>
         \A r \in AnyResourceId, type \in ShareType :
           \A t \in AnyTargetId(type) :
             removeShare(r, type, t) =>
               /\ resp'.error = NoError
               /\ resourceShares' = {rs \in resourceShares :
                                       <<rs.resourceId, rs.shareType, rs.targetId>> # <<r, type, t>>}
               /\ Cardinality(resourceShares) - Cardinality(resourceShares') <= 1
               /\ <<r, type, t>> \notin shareKeys(resourceShares) =>
                    resourceShares' = resourceShares
     /\ (resp'.op = "createShare" /\ resp'.error = NoError) =>
         \A r \in AnyResourceId, type \in ShareType :
           \A t \in AnyTargetId(type) :
             (<<r, type, t>> \notin shareKeys(resourceShares) /\ createShare(r, type, t)) =>
               /\ <<r, type, t>> \in shareKeys(resourceShares')
               /\ resourceShares' \ sharesWithKey(r, type, t)' = resourceShares]_vars

\* a share has been removed while another one is kept: no resource was
\* deleted, so the row that is gone was deleted by removeShare
C29_Witness ==
  /\ resp.op = "removeShare"
  /\ shareSeq = MaxShares
  /\ Cardinality(resourceShares) = 1
  /\ Cardinality(resources) = resourceSeq

=============================================================================
